---- MODULE Spec2Model ----
(***************************************************************************)
(* A model of pde_superresolution/model.py and training.py: the periodic   *)
(* stencil extractor, the coefficient predictor, the derivative            *)
(* composition pipeline, the construction of model inputs and the loss     *)
(* calibration.                                                            *)
(*                                                                         *)
(* Tensors are sequences (1-based); python index i of an axis is element   *)
(* i + 1.  A field [batch, x] is a sequence of rows.  Arithmetic is exact  *)
(* (integers, and rationals <<num, den>> where the code divides).          *)
(***************************************************************************)
EXTENDS Integers, Sequences, FiniteSets, TLC

VARIABLES
  pc,       \* position of the operation under way
  hparams,  \* the hyper-parameters (tf.contrib.training.HParams) of the run
  inputs,   \* the input field(s) of the operation
  net,      \* output of the learned part (convolution stack / variable)
  result,   \* the value the operation returned
  error,    \* the exception the operation raised, "none" when it returned
  log       \* the computations set up so far, in program order

vars == <<pc, hparams, inputs, net, result, error, log>>

NoValue == <<>>

\* ------------------------------------------------------------------ bounds

MaxBatch == 1
MaxWidth == 3
MaxSize == 4
MaxValue == 1

Values == 0 .. MaxValue

\* ----------------------------------------------------------------- helpers

Range(s) == {s[i] : i \in DOMAIN s}

RECURSIVE SumSeq(_)
SumSeq(s) == IF s = <<>> THEN 0 ELSE Head(s) + SumSeq(Tail(s))

\* x mod w for any integer x (python's %, w > 0)
PyMod(x, w) == ((x % w) + w) % w

\* all fields [batch, x] with the given shape and values
Fields(batch, width, vals) == [1 .. batch -> [1 .. width -> vals]]

\* np.roll / circular shift of one row by k positions: out[i] = row[(i - k) mod W]
RollRow(row, k) == [i \in 1 .. Len(row) |-> row[PyMod(i - 1 - k, Len(row)) + 1]]

Roll(field, k) == [b \in 1 .. Len(field) |-> RollRow(field[b], k)]

\* ------------------------------------------------- periodic stencil extractor

\* layers.pad_periodic(inputs, padding, center=True) along the x axis: the
\* row extended by `padding` wrapped points, the left share of them first.
CenterOffset(padding) == padding \div 2

pad_periodic(field, padding, center) ==
  LET left == IF center THEN CenterOffset(padding) ELSE 0
  IN  [b \in 1 .. Len(field) |->
        [k \in 1 .. Len(field[b]) + padding |->
          field[b][PyMod(k - 1 - left, Len(field[b])) + 1]]]

\* tf.extract_image_patches(images[batch, rows, 1, 1], ksizes=[1, size, 1, 1],
\* strides 1, rates 1) squeezed: 'VALID' keeps the rows - size + 1 windows that
\* fit, 'SAME' keeps one window per row and reads 0 outside the image.
extract_image_patches(images, size, padding) ==
  LET before == (size - 1) \div 2
  IN  [b \in 1 .. Len(images) |->
        IF padding = "VALID"
        THEN [i \in 1 .. Len(images[b]) - size + 1 |->
               [j \in 1 .. size |-> images[b][i + j - 1]]]
        ELSE [i \in 1 .. Len(images[b]) |->
               [j \in 1 .. size |->
                 LET k == i + j - 1 - before
                 IN  IF k \in 1 .. Len(images[b]) THEN images[b][k] ELSE 0]]]

\* the patches of the field padded by size instead of size - 1
extract_patches_padded_by_size(field, size) ==
  extract_image_patches(pad_periodic(field, size, TRUE), size, "VALID")

\* the patches with zero padding added by the extraction itself
extract_patches_same(field, size) ==
  extract_image_patches(pad_periodic(field, size - 1, TRUE), size, "SAME")

extract_patches(field, size) ==
  extract_image_patches(pad_periodic(field, size - 1, TRUE), size, "VALID")

\* the size and the shift are inputs of the operation, kept in hparams
InitPatches ==
  /\ pc = "patches_start"
  /\ \E b \in 1 .. MaxBatch, w \in 1 .. MaxWidth :
       inputs \in Fields(b, w, Values)
  /\ hparams \in [size : 1 .. MaxSize, shift : -MaxWidth .. MaxWidth]
  /\ net = NoValue
  /\ result = NoValue
  /\ error = "none"
  /\ log = <<>>

ExtractPatches ==
  /\ pc = "patches_start"
  /\ pc' = "patches"
  /\ result' = extract_patches(inputs, hparams.size)
  /\ log' = Append(log, "extract_patches")
  /\ UNCHANGED <<hparams, inputs, net, error>>

\* the same extraction on the field shifted by hparams.shift positions
ExtractShiftedPatches ==
  /\ pc = "patches_start"
  /\ pc' = "shifted_patches"
  /\ result' = extract_patches(Roll(inputs, hparams.shift), hparams.size)
  /\ log' = Append(log, "extract_patches")
  /\ UNCHANGED <<hparams, inputs, net, error>>

NextPatches == ExtractPatches \/ ExtractShiftedPatches

SpecPatches == InitPatches /\ [][NextPatches]_vars

\* C2: extract_patches(inputs, size=S) on a field of width W returns shape
\* (batch, W, S) with entry [b, i, j] = inputs[b, (i - offset + j) mod W], the
\* offset fixed by the centering convention, for every S >= 1, S > W included,
\* and no error is raised.
C2_PatchContents ==
  pc = "patches" =>
    LET S == hparams.size
        W == Len(inputs[1])
    IN  /\ error = "none"
        /\ Len(result) = Len(inputs)
        /\ \A b \in 1 .. Len(inputs) :
             /\ Len(result[b]) = W
             /\ \A i \in 0 .. W - 1 :
                  /\ Len(result[b][i + 1]) = S
                  /\ \A j \in 0 .. S - 1 :
                       result[b][i + 1][j + 1] =
                         inputs[b][PyMod(i - CenterOffset(S - 1) + j, W) + 1]

C2_Witness ==
  /\ pc = "patches"
  /\ hparams.size > Len(inputs[1])
  /\ Len(inputs[1]) = 3
  /\ inputs[1][1] # inputs[1][2]
  /\ result[1][1][1] # result[1][1][2]

\* C3: extracting patches from the field circularly shifted by k positions
\* gives the patch tensor of the original field circularly shifted by k
\* positions along the position axis, each patch's contents unchanged.
C3_ShiftEquivariant ==
  pc = "shifted_patches" =>
    result = Roll(extract_patches(inputs, hparams.size), hparams.shift)

C3_Witness ==
  /\ pc = "shifted_patches"
  /\ hparams.shift = 1
  /\ hparams.size = 3
  /\ Len(inputs[1]) = 3
  /\ inputs[1] = <<0, 1, 1>>
  /\ result[1][1] # result[1][2]

\* ------------------------------------------------------------------ rationals

RECURSIVE GCD(_, _)
GCD(a, b) == IF b = 0 THEN a ELSE GCD(b, a % b)

Abs(a) == IF a < 0 THEN -a ELSE a

\* the rational n / d in lowest terms with a positive denominator; as in
\* IEEE arithmetic a zero denominator gives an infinity <<1, 0>> or <<-1, 0>>
\* and 0 / 0 gives the not-a-number <<0, 0>>
Rat(n, d) ==
  LET g == GCD(Abs(n), Abs(d))
      s == IF d < 0 THEN -1 ELSE 1
  IN  IF n = 0 /\ d = 0 THEN <<0, 0>>
      ELSE <<s * (n \div g), s * (d \div g)>>

\* neither an infinity nor a not-a-number
RFinite(p) == p[2] > 0

RInt(n) == <<n, 1>>
RAdd(p, q) == Rat(p[1] * q[2] + q[1] * p[2], p[2] * q[2])
RSub(p, q) == Rat(p[1] * q[2] - q[1] * p[2], p[2] * q[2])
RMul(p, q) == Rat(p[1] * q[1], p[2] * q[2])
RDiv(p, q) == Rat(p[1] * q[2], p[2] * q[1])
RLess(p, q) == p[1] * q[2] < q[1] * p[2]
RZero == RInt(0)
ROne == RInt(1)

RECURSIVE RSum(_)
RSum(s) == IF s = <<>> THEN RZero ELSE RAdd(Head(s), RSum(Tail(s)))

\* tf.reduce_mean / np.mean of a non-empty sequence of rationals
RMean(s) == RDiv(RSum(s), RInt(Len(s)))

RECURSIVE Pow(_, _)
Pow(g, m) == IF m = 0 THEN 1 ELSE g * Pow(g, m - 1)

RECURSIVE Factorial(_)
Factorial(d) == IF d = 0 THEN 1 ELSE d * Factorial(d - 1)

RECURSIVE Binomial(_, _)
Binomial(n, k) ==
  IF k = 0 \/ k = n THEN 1
  ELSE IF k < 0 \/ k > n THEN 0
  ELSE Binomial(n - 1, k - 1) + Binomial(n - 1, k)

\* ----------------------------------------------------------- equation interface

\* equations.from_hparams(hparams): the equation type, by name and form
from_hparams(hp) ==
  IF hp.conservative THEN "conservative_" \o hp.equation ELSE hp.equation

\* the derivative orders an equation type declares (may include 0)
DERIVATIVE_ORDERS(equation_type) ==
  IF equation_type = "conservative_burgers" THEN <<0, 1>> ELSE <<1, 2>>

\* the grid convention: TRUE when the reference point is offset to the left
GRID_OFFSET(equation_type) == equation_type = "conservative_burgers"

\* polynomials.regular_finite_difference_grid: the contiguous integer offsets
\* of the smallest grid with derivative_order + accuracy_order points, an odd
\* number of points around 0 when centered, an even number otherwise
regular_finite_difference_grid(grid_offset, derivative_order, accuracy_order) ==
  LET min_grid_size == derivative_order + accuracy_order
      k == min_grid_size \div 2
      n == (min_grid_size + 1) \div 2
  IN  IF grid_offset
      THEN [i \in 1 .. 2 * n |-> i - n]
      ELSE [i \in 1 .. 2 * k + 1 |-> i - 1 - k]

\* ------------------------------------------- polynomial-accuracy constraint solver

\* row m of the constraint system applied to the coefficient vector c:
\* sum_i c_i * g_i^m
ConstraintRow(c, grid, m) ==
  RSum([i \in 1 .. Len(grid) |-> RMul(c[i], RInt(Pow(grid[i], m)))])

\* its right-hand side: d! when m = d, else 0
ConstraintRhs(derivative_order, m) ==
  IF m = derivative_order THEN RInt(Factorial(derivative_order)) ELSE RZero

\* the elementary symmetric polynomial of degree k of the sequence s
RECURSIVE ElemSym(_, _)
ElemSym(s, k) ==
  IF k = 0 THEN 1
  ELSE IF Len(s) < k THEN 0
  ELSE ElemSym(Tail(s), k) + Head(s) * ElemSym(Tail(s), k - 1)

RECURSIVE Product(_)
Product(s) == IF s = <<>> THEN 1 ELSE Head(s) * Product(Tail(s))

Without(s, i) == [j \in 1 .. Len(s) - 1 |-> IF j < i THEN s[j] ELSE s[j + 1]]

\* polynomials.coefficients(grid, derivative_order): the classical finite
\* difference stencil, the solution of the fully determined system (rows
\* m = 0 .. grid size - 1), here by the derivative at 0 of each Lagrange
\* basis polynomial of the grid
coefficients(grid, derivative_order) ==
  [i \in 1 .. Len(grid) |->
    LET others == Without(grid, i)
    IN  Rat(Factorial(derivative_order)
              * ElemSym([j \in 1 .. Len(others) |-> -others[j]],
                        Len(grid) - 1 - derivative_order),
            Product([j \in 1 .. Len(others) |-> grid[i] - others[j]]))]

\* PolynomialAccuracyLayer.input_size: the dimension of the nullspace of the
\* rows m = 0 .. accuracy_order
input_size(layer) == Len(layer.grid) - (layer.accuracy_order + 1)

\* column k of a basis of that nullspace: the finite difference of order
\* accuracy_order + 1 starting at grid point k (it annihilates every
\* polynomial of degree <= accuracy_order on a contiguous grid)
NullspaceColumn(layer, k) ==
  [i \in 1 .. Len(layer.grid) |->
    LET j == i - k
        a == layer.accuracy_order + 1
    IN  IF j \in 0 .. a
        THEN (IF (a - j) % 2 = 0 THEN 1 ELSE -1) * Binomial(a, j)
        ELSE 0]

\* whether the constraints leave a layer to construct
Infeasible(layer) == layer.accuracy_order >= Len(layer.grid)

\* PolynomialAccuracyLayer.apply(raw): particular solution plus the nullspace
\* basis times (out_scale * raw), raw of length input_size
LayerApply(layer, raw) ==
  LET bias == coefficients(layer.grid, layer.derivative_order)
  IN  [i \in 1 .. Len(layer.grid) |->
        RAdd(bias[i],
             RSum([k \in 1 .. input_size(layer) |->
                    RInt(NullspaceColumn(layer, k)[i] * layer.out_scale * raw[k])]))]

\* ------------------------------------------------------------ coefficient predictor

MaxLayers == 2
MaxAccuracyOrder == 3

\* the grid of the predicted coefficients
coefficient_grid(hp) ==
  regular_finite_difference_grid(GRID_OFFSET(from_hparams(hp)), 0,
                                 hp.coefficient_grid_min_size)

\* one PolynomialAccuracyLayer per derivative order of the equation
poly_accuracy_layers_by_index(hp, grid, orders) ==
  [i \in 1 .. Len(orders) |->
    [grid |-> grid, derivative_order |-> i - 1,
     accuracy_order |-> hp.polynomial_accuracy_order,
     out_scale |-> hp.polynomial_accuracy_scale]]

poly_accuracy_layers(hp, grid, orders) ==
  [i \in 1 .. Len(orders) |->
    [grid |-> grid, derivative_order |-> orders[i],
     accuracy_order |-> hp.polynomial_accuracy_order,
     out_scale |-> hp.polynomial_accuracy_scale]]

\* np.cumsum
cumsum(sizes) == [i \in 1 .. Len(sizes) |-> SumSeq(SubSeq(sizes, 1, i))]

\* starts = [0] + cum_sizes[:-1], stops = cum_sizes
starts(input_sizes) ==
  <<0>> \o SubSeq(cumsum(input_sizes), 1, Len(input_sizes) - 1)

stops(input_sizes) == cumsum(input_sizes)

\* net[..., start:stop] at one position
Slice(v, start, stop) == [k \in 1 .. stop - start |-> v[start + k]]

\* the number of filters of the last layer (the shape of the variable when
\* there is no layer); 0 when the layers cannot be constructed
num_filters(hp) ==
  LET orders == DERIVATIVE_ORDERS(from_hparams(hp))
      grid == coefficient_grid(hp)
      layers == poly_accuracy_layers(hp, grid, orders)
  IN  IF hp.num_layers = 0 \/ hp.polynomial_accuracy_order = 0
      THEN Len(orders) * Len(grid)
      ELSE IF \E i \in 1 .. Len(layers) : Infeasible(layers[i])
      THEN 0
      ELSE SumSeq([i \in 1 .. Len(layers) |-> input_size(layers[i])])

\* tf.reshape of the filters axis into [num_derivatives, grid.size]
reshape_outputs(v, num_derivatives, size) ==
  [d \in 1 .. num_derivatives |->
    [j \in 1 .. size |-> RInt(v[(d - 1) * size + j])]]

\* outputs -= tf.reduce_mean(outputs, axis=-2, keepdims=True): the mean over
\* the derivative axis
unbiased_over_derivatives(outputs) ==
  [d \in 1 .. Len(outputs) |->
    [j \in 1 .. Len(outputs[d]) |->
      RSub(outputs[d][j],
           RMean([e \in 1 .. Len(outputs) |-> outputs[e][j]]))]]

\* outputs -= tf.reduce_mean(outputs, axis=-1, keepdims=True), at one position
unbiased(outputs) ==
  [d \in 1 .. Len(outputs) |->
    [j \in 1 .. Len(outputs[d]) |->
      RSub(outputs[d][j], RMean(outputs[d]))]]

\* 0 in equation_type.DERIVATIVE_ORDERS
last_order_is_zero(orders) == orders[Len(orders)] = 0

has_zeroth_order(orders) == 0 \in Range(orders)

\* what has been set up when the last layer's output is in hand
StackLog(hp) ==
  <<"batch_normalization">>
    \o [i \in 1 .. hp.num_layers - 1 |-> "conv1d_periodic_layer"]

\* the variable multiplied by the value of the field at each position
tile_scaled_by_inputs(variable, field) ==
  [b \in 1 .. Len(field) |-> [x \in 1 .. Len(field[b]) |->
    [d \in 1 .. Len(variable) |-> [i \in 1 .. Len(variable[d]) |->
      RMul(variable[d][i], RInt(field[b][x]))]]]]

\* tf.tile(coefficients[tf.newaxis, tf.newaxis, :, :], [batch, x, 1, 1])
tile(variable, field) ==
  [b \in 1 .. Len(field) |-> [x \in 1 .. Len(field[b]) |-> variable]]

\* predict_coefficients(inputs, hparams): the exception raised or the tensor
\* [batch, x, derivative, coefficient] returned, and what was set up on the
\* way.  netv is the variable 'coefficients' when there is no layer, else the
\* output [batch, x, filters] of the last convolution.
predict_coefficients(field, hp, netv) ==
  LET equation_type == from_hparams(hp)
      orders == DERIVATIVE_ORDERS(equation_type)
      num_derivatives == Len(orders)
      grid == coefficient_grid(hp)
      layers == poly_accuracy_layers(hp, grid, orders)
      input_sizes == [i \in 1 .. Len(layers) |-> input_size(layers[i])]
      EachPosition(f(_)) ==
        [b \in 1 .. Len(field) |-> [x \in 1 .. Len(field[b]) |-> f(netv[b][x])]]
      Reshaped(v) == reshape_outputs(v, num_derivatives, Len(grid))
      Unbiased(v) == unbiased(Reshaped(v))
      Constrained(v) ==
        [i \in 1 .. Len(layers) |->
          LayerApply(layers[i],
                     Slice(v, starts(input_sizes)[i], stops(input_sizes)[i]))]
  IN  IF hp.num_layers = 0
      THEN [error |-> "none",
            value |-> tile(reshape_outputs(netv, num_derivatives, Len(grid)), field),
            log |-> <<"get_variable", "tile">>]
      ELSE IF hp.polynomial_accuracy_order = 0
      THEN IF hp.ensure_unbiased_coefficients
           THEN IF has_zeroth_order(orders)
                THEN [error |-> "ValueError", value |-> NoValue,
                      log |-> StackLog(hp) \o <<"conv1d_periodic_layer", "reshape">>]
                ELSE [error |-> "none", value |-> EachPosition(Unbiased),
                      log |-> StackLog(hp)
                                \o <<"conv1d_periodic_layer", "reshape", "reduce_mean">>]
           ELSE [error |-> "none", value |-> EachPosition(Reshaped),
                 log |-> StackLog(hp) \o <<"conv1d_periodic_layer", "reshape">>]
      ELSE IF \E i \in 1 .. Len(layers) : Infeasible(layers[i])
      THEN [error |-> "ValueError", value |-> NoValue, log |-> StackLog(hp)]
      ELSE [error |-> "none", value |-> EachPosition(Constrained),
            log |-> StackLog(hp) \o <<"conv1d_periodic_layer", "stack">>]

\* tensors of the given shape with at most one entry that is not 0
NonzeroRaw == {-1, 2}

Impulses(n) ==
  {[k \in 1 .. n |-> 0]}
    \cup {[k \in 1 .. n |-> IF k = at THEN v ELSE 0] : at \in 1 .. n, v \in NonzeroRaw}

NetOutputs(batch, width, filters) ==
  {[b \in 1 .. batch |-> [x \in 1 .. width |->
      [k \in 1 .. filters |-> flat[((b - 1) * width + (x - 1)) * filters + k]]]] :
    flat \in Impulses(batch * width * filters)}

\* a field of each shape that is all 0, and one that is not
ShapeFields(batch, width) ==
  {[b \in 1 .. batch |-> [x \in 1 .. width |-> 0]],
   [b \in 1 .. batch |-> [x \in 1 .. width |-> (b + x) % (MaxValue + 1)]]}

CoefficientWidths == {1, 2}

CoefficientHParams ==
  [equation : {"burgers"},
   conservative : BOOLEAN,
   num_layers : 0 .. MaxLayers,
   polynomial_accuracy_order : 0 .. MaxAccuracyOrder,
   polynomial_accuracy_scale : {1, 2},
   ensure_unbiased_coefficients : BOOLEAN,
   coefficient_grid_min_size : {2, 3}]

InitCoefficients ==
  /\ pc = "coefficients_start"
  /\ hparams \in CoefficientHParams
  /\ \E b \in 1 .. MaxBatch, w \in CoefficientWidths :
       /\ inputs \in ShapeFields(b, w)
       /\ net \in IF hparams.num_layers = 0
                  THEN Impulses(num_filters(hparams))
                  ELSE NetOutputs(b, w, num_filters(hparams))
  /\ result = NoValue
  /\ error = "none"
  /\ log = <<>>

PredictCoefficients ==
  /\ pc = "coefficients_start"
  /\ pc' = "coefficients"
  /\ LET out == predict_coefficients(inputs, hparams, net)
     IN  /\ result' = out.value
         /\ error' = out.error
         /\ log' = log \o out.log
  /\ UNCHANGED <<hparams, inputs, net>>

NextCoefficients == PredictCoefficients

SpecCoefficients == InitCoefficients /\ [][NextCoefficients]_vars

CoefficientShape(grid, orders) ==
  /\ Len(result) = Len(inputs)
  /\ \A b \in 1 .. Len(inputs) :
       /\ Len(result[b]) = Len(inputs[b])
       /\ \A x \in 1 .. Len(inputs[b]) :
            /\ Len(result[b][x]) = Len(orders)
            /\ \A d \in 1 .. Len(orders) : Len(result[b][x][d]) = Len(grid)

\* C16: with a layer count of zero predict_coefficients returns a tensor of
\* shape (batch, x, derivative, grid size) whose coefficient vector of each
\* derivative order is the learned variable's at every position and batch
\* element, whatever the values of the input field.
C16_ZeroLayersBroadcast ==
  (pc = "coefficients" /\ hparams.num_layers = 0)
  => LET orders == DERIVATIVE_ORDERS(from_hparams(hparams))
         grid == coefficient_grid(hparams)
     IN  /\ error = "none"
         /\ CoefficientShape(grid, orders)
         /\ \A b \in 1 .. Len(inputs) : \A x \in 1 .. Len(inputs[b]) :
              \A d \in 1 .. Len(orders) : \A i \in 1 .. Len(grid) :
                result[b][x][d][i] = RInt(net[(d - 1) * Len(grid) + i])
         /\ \A other \in Fields(Len(inputs), Len(inputs[1]), Values) :
              predict_coefficients(other, hparams, net).value = result

C16_Witness ==
  /\ pc = "coefficients"
  /\ hparams.num_layers = 0
  /\ hparams.conservative = FALSE
  /\ hparams.coefficient_grid_min_size = 2
  /\ inputs = <<<<0, 1>>>>
  /\ net[2] = 2
  /\ result[1][1] = result[1][2]
  /\ result[1][2][1] = <<RInt(0), RInt(2), RInt(0)>>

\* C1: on the polynomial-constrained output path (polynomial_accuracy_order
\* > 0, layers present), whatever the raw values are, every coefficient
\* vector c of derivative order d satisfies sum_i c_i * g_i^m = d! if m = d
\* else 0 for every m in 0 .. accuracy_order.
C1_PolynomialExact ==
  LET orders == DERIVATIVE_ORDERS(from_hparams(hparams))
      grid == coefficient_grid(hparams)
  IN  (/\ pc = "coefficients"
       /\ hparams.num_layers > 0
       /\ hparams.polynomial_accuracy_order > 0
       /\ hparams.polynomial_accuracy_order < Len(grid))
      => /\ error = "none"
         /\ CoefficientShape(grid, orders)
         /\ \A b \in 1 .. Len(inputs) : \A x \in 1 .. Len(inputs[b]) :
              \A d \in 1 .. Len(orders) :
                \A m \in 0 .. hparams.polynomial_accuracy_order :
                  ConstraintRow(result[b][x][d], grid, m)
                    = ConstraintRhs(orders[d], m)

C1_Witness ==
  /\ pc = "coefficients"
  /\ hparams.num_layers > 0
  /\ hparams.polynomial_accuracy_order = 1
  /\ hparams.polynomial_accuracy_scale = 2
  /\ ~hparams.conservative
  /\ error = "none"
  /\ \E x \in 1 .. Len(inputs[1]) : net[1][x][2] = 2
  /\ \E x \in 1 .. Len(inputs[1]) :
       result[1][x][2] # coefficients(coefficient_grid(hparams), 2)

C6_InfeasibleOrderIsAnError ==
  (/\ pc = "coefficients"
   /\ hparams.polynomial_accuracy_order >= Len(coefficient_grid(hparams)))
  => /\ error = "ValueError"
     /\ result = NoValue

\* C7: with sum-to-zero enabled on the unconstrained output path (layers
\* present, polynomial_accuracy_order = 0, no zeroth-order target), every
\* returned coefficient vector sums to zero along the coefficient axis.
C7_SumToZero ==
  LET orders == DERIVATIVE_ORDERS(from_hparams(hparams))
      grid == coefficient_grid(hparams)
  IN  (/\ pc = "coefficients"
       /\ hparams.num_layers > 0
       /\ hparams.polynomial_accuracy_order = 0
       /\ hparams.ensure_unbiased_coefficients
       /\ 0 \notin Range(orders))
      => /\ error = "none"
         /\ CoefficientShape(grid, orders)
         /\ \A b \in 1 .. Len(inputs) : \A x \in 1 .. Len(inputs[b]) :
              \A d \in 1 .. Len(orders) : RSum(result[b][x][d]) = RZero

C7_Witness ==
  /\ pc = "coefficients"
  /\ hparams.num_layers > 0
  /\ hparams.polynomial_accuracy_order = 0
  /\ hparams.ensure_unbiased_coefficients
  /\ ~hparams.conservative
  /\ error = "none"
  /\ net[1][1][1] = 2
  /\ result[1][1][1] = <<Rat(4, 3), Rat(-2, 3), Rat(-2, 3)>>

\* ------------------------------------------------- derivative composition pipeline

\* tf.einsum('bxdi,bxi->bxd', coefficients, patches) on the patches of the
\* size of the coefficient axis
apply_coefficients(coefs, field) ==
  LET size == Len(coefs[1][1][1])
      patches == extract_patches(field, size)
  IN  [b \in 1 .. Len(field) |-> [x \in 1 .. Len(field[b]) |->
        [d \in 1 .. Len(coefs[b][x]) |->
          RSum([i \in 1 .. size |->
                 RMul(coefs[b][x][d][i], RInt(patches[b][x][i]))])]]]

\* a tf.Tensor as the python object it is: it has a shape and a value, and
\* none of the attributes of HParams
TensorObject(field) ==
  [shape |-> <<Len(field), Len(field[1])>>, value |-> field]

\* the attributes from_hparams reads
IsHParams(obj) == {"equation", "conservative"} \subseteq DOMAIN obj

\* predict_space_derivatives(inputs, hparams); the second argument may be any
\* object, and reading the equation from one that is no HParams fails
predict_space_derivatives(field, hp, netv) ==
  IF ~IsHParams(hp)
  THEN [error |-> "AttributeError", value |-> NoValue]
  ELSE LET coefs == predict_coefficients(field, hp, netv)
       IN  IF coefs.error # "none"
           THEN [error |-> coefs.error, value |-> NoValue]
           ELSE [error |-> "none",
                 value |-> apply_coefficients(coefs.value, field)]

RatField(field) ==
  [b \in 1 .. Len(field) |-> [x \in 1 .. Len(field[b]) |-> RInt(field[b][x])]]

\* Equation.equation_of_motion(y, spatial_derivatives), the derivatives keyed
\* by order: Burgers' equation y_t = y_xx - y y_x, and its conservative form
\* y_t = -(flux[x] - flux[x - 1]) with flux = y^2 / 2 - y_x at the offset
\* points
equation_of_motion(equation_type, y, spatial) ==
  IF equation_type = "conservative_burgers"
  THEN LET flux(b, x) ==
             RSub(RDiv(RMul(spatial[0][b][x], spatial[0][b][x]), RInt(2)),
                  spatial[1][b][x])
       IN  [b \in 1 .. Len(y) |-> [x \in 1 .. Len(y[b]) |->
             RSub(flux(b, PyMod(x - 2, Len(y[b])) + 1), flux(b, x))]]
  ELSE [b \in 1 .. Len(y) |-> [x \in 1 .. Len(y[b]) |->
         RSub(spatial[2][b][x], RMul(y[b][x], spatial[1][b][x]))]]

\* derivatives[..., i]
Channel(derivatives, i) ==
  [b \in 1 .. Len(derivatives) |-> [x \in 1 .. Len(derivatives[b]) |->
    derivatives[b][x][i]]]

\* {d: derivatives[..., i] for i, d in enumerate(DERIVATIVE_ORDERS)}
derivatives_dict(orders, derivatives) ==
  [d \in Range(orders) |->
    Channel(derivatives, CHOOSE i \in 1 .. Len(orders) : orders[i] = d)]

apply_space_derivatives(derivatives, field, hp) ==
  LET equation_type == from_hparams(hp)
  IN  equation_of_motion(equation_type, RatField(field),
        derivatives_dict(DERIVATIVE_ORDERS(equation_type), derivatives))

\* tf.concat([time_derivative[..., tf.newaxis], space_derivatives], axis=-1)
stack_time_space(space_derivatives, time_derivative) ==
  [b \in 1 .. Len(space_derivatives) |-> [x \in 1 .. Len(space_derivatives[b]) |->
    <<time_derivative[b][x]>> \o space_derivatives[b][x]]]

\* tf.concat([space_derivatives, time_derivative[..., tf.newaxis]], axis=-1)
stack_space_time(space_derivatives, time_derivative) ==
  [b \in 1 .. Len(space_derivatives) |-> [x \in 1 .. Len(space_derivatives[b]) |->
    Append(space_derivatives[b][x], time_derivative[b][x])]]

predict_all_derivatives(field, hp, netv) ==
  LET space_derivatives == predict_space_derivatives(field, hp, netv)
  IN  IF space_derivatives.error # "none"
      THEN space_derivatives
      ELSE [error |-> "none",
            value |-> stack_space_time(space_derivatives.value,
                        apply_space_derivatives(space_derivatives.value, field, hp))]

\* predict_time_derivative(inputs, hparams): the space derivatives are asked
\* for with `inputs` in the place of hparams
predict_time_derivative(field, hp, netv) ==
  LET space_derivatives == predict_space_derivatives(field, TensorObject(field), netv)
  IN  IF space_derivatives.error # "none"
      THEN space_derivatives
      ELSE [error |-> "none",
            value |-> apply_space_derivatives(space_derivatives.value, field, hp)]

\* polynomials.apply_finite_differences(inputs, grid, derivative_order): the
\* classical stencil of the grid applied at every point of the periodic field
\* (a field of rationals)
apply_finite_differences(field, grid, derivative_order) ==
  LET c == coefficients(grid, derivative_order)
  IN  [b \in 1 .. Len(field) |-> [x \in 1 .. Len(field[b]) |->
        RSum([i \in 1 .. Len(grid) |->
               RMul(c[i], field[b][PyMod(x - 1 + grid[i], Len(field[b])) + 1])])]]

\* calculate_baseline_derivatives(inputs, equation): the list of the spatial
\* derivatives, in the order of DERIVATIVE_ORDERS, and the time derivative last
calculate_baseline_derivatives(field, equation_type) ==
  LET orders == DERIVATIVE_ORDERS(equation_type)
      spatial_derivatives_list ==
        [i \in 1 .. Len(orders) |->
          apply_finite_differences(field,
            regular_finite_difference_grid(GRID_OFFSET(equation_type), orders[i], 1),
            orders[i])]
      spatial_derivatives ==
        [d \in Range(orders) |->
          spatial_derivatives_list[CHOOSE i \in 1 .. Len(orders) : orders[i] = d]]
      time_derivative == equation_of_motion(equation_type, field, spatial_derivatives)
  IN  Append(spatial_derivatives_list, time_derivative)

\* tf.stack(list, axis=-1)
stack_last(list) ==
  [b \in 1 .. Len(list[1]) |-> [x \in 1 .. Len(list[1][b]) |->
    [i \in 1 .. Len(list) |-> list[i][b][x]]]]

\* the hyper-parameters of the pipeline runs
PipelineHParams ==
  [equation : {"burgers"},
   conservative : BOOLEAN,
   num_layers : 0 .. MaxLayers,
   polynomial_accuracy_order : 0 .. MaxAccuracyOrder,
   polynomial_accuracy_scale : {1},
   ensure_unbiased_coefficients : {FALSE},
   coefficient_grid_min_size : {3}]

PipelineWidths == {2, 3}

InitPipeline ==
  /\ pc = "pipeline_start"
  /\ hparams \in PipelineHParams
  /\ \E w \in PipelineWidths :
       /\ inputs \in Fields(1, w, Values)
       /\ net \in IF hparams.num_layers = 0
                  THEN Impulses(num_filters(hparams))
                  ELSE NetOutputs(1, w, num_filters(hparams))
  /\ result = NoValue
  /\ error = "none"
  /\ log = <<>>

PredictAllDerivatives ==
  /\ pc = "pipeline_start"
  /\ pc' = "all_derivatives"
  /\ LET out == predict_all_derivatives(inputs, hparams, net)
     IN  /\ result' = out.value
         /\ error' = out.error
  /\ log' = Append(log, "predict_all_derivatives")
  /\ UNCHANGED <<hparams, inputs, net>>

PredictTimeDerivative ==
  /\ pc = "pipeline_start"
  /\ pc' = "time_derivative"
  /\ LET out == predict_time_derivative(inputs, hparams, net)
     IN  /\ result' = out.value
         /\ error' = out.error
  /\ log' = Append(log, "predict_time_derivative")
  /\ UNCHANGED <<hparams, inputs, net>>

\* the baseline of model_inputs: the stacked classical derivatives
CalculateBaseline ==
  /\ pc = "pipeline_start"
  /\ pc' = "baseline"
  /\ result' = stack_last(calculate_baseline_derivatives(RatField(inputs),
                                                       from_hparams(hparams)))
  /\ log' = Append(log, "calculate_baseline_derivatives")
  /\ UNCHANGED <<hparams, inputs, net, error>>

NextPipeline == PredictAllDerivatives \/ PredictTimeDerivative \/ CalculateBaseline

SpecPipeline == InitPipeline /\ [][NextPipeline]_vars

\* C9 as stated: predict_time_derivative(inputs, hparams) equals
\* apply_space_derivatives(predict_space_derivatives(inputs, hparams), inputs,
\* hparams), the last channel of predict_all_derivatives(inputs, hparams).
C9_TimeDerivativeIsComposition ==
  LET all == predict_all_derivatives(inputs, hparams, net)
  IN  pc = "time_derivative"
      => /\ error = all.error
         /\ all.error = "none"
              => result = Channel(all.value,
                                  Len(DERIVATIVE_ORDERS(from_hparams(hparams))) + 1)

\* the position of an order in the declared list
OrderIndex(orders, d) == CHOOSE i \in 1 .. Len(orders) : orders[i] = d

\* the time derivative that the equation gives for the spatial channels of a
\* stacked tensor, channel i read as the derivative of order orders[i]
TimeFromChannels(equation_type, field, stacked) ==
  equation_of_motion(equation_type, RatField(field),
    [d \in Range(DERIVATIVE_ORDERS(equation_type)) |->
      Channel(stacked, OrderIndex(DERIVATIVE_ORDERS(equation_type), d))])

\* C10: predict_all_derivatives returns one channel per declared derivative
\* order, in the order of DERIVATIVE_ORDERS (channel i the predicted
\* coefficients of order i applied to the periodic neighbourhood), followed by
\* exactly one last channel, the equation of motion applied to the field and
\* {DERIVATIVE_ORDERS[i] -> channel i}; calculate_baseline_derivatives has the
\* same layout (channel i the classical derivative of order
\* DERIVATIVE_ORDERS[i], the time derivative last).
C10_ChannelLayout ==
  LET equation_type == from_hparams(hparams)
      orders == DERIVATIVE_ORDERS(equation_type)
      D == Len(orders)
      W == Len(inputs[1])
      Layout ==
        /\ Len(result) = Len(inputs)
        /\ \A b \in 1 .. Len(inputs) :
             /\ Len(result[b]) = W
             /\ \A x \in 1 .. W : Len(result[b][x]) = D + 1
        /\ Channel(result, D + 1) = TimeFromChannels(equation_type, inputs, result)
  IN  /\ (pc = "all_derivatives" /\ error = "none")
           => /\ Layout
              /\ LET coefs == predict_coefficients(inputs, hparams, net).value
                     S == Len(coefficient_grid(hparams))
                 IN  \A b \in 1 .. Len(inputs) : \A x \in 0 .. W - 1 :
                       \A i \in 1 .. D :
                         result[b][x + 1][i] =
                           RSum([j \in 1 .. S |->
                             RMul(coefs[b][x + 1][i][j],
                                  RInt(inputs[b][PyMod(x - CenterOffset(S - 1) + j - 1, W) + 1]))])
      /\ pc = "baseline"
           => /\ Layout
              /\ \A i \in 1 .. D :
                   Channel(result, i) =
                     apply_finite_differences(RatField(inputs),
                       regular_finite_difference_grid(GRID_OFFSET(equation_type), orders[i], 1),
                       orders[i])

C10_Witness ==
  /\ pc = "all_derivatives"
  /\ error = "none"
  /\ ~hparams.conservative
  /\ hparams.num_layers = 1
  /\ hparams.polynomial_accuracy_order = 1
  /\ inputs = <<<<0, 1, 1>>>>
  /\ net[1][2][1] = 2
  /\ result[1][1] = <<RInt(0), RInt(2), RInt(2)>>
  /\ result[1][2] = <<Rat(-3, 2), RInt(-1), Rat(1, 2)>>

\* ------------------------------------------------------------------- model inputs

MaxFactor == 2

\* the shape of a tensor [batch, x]
Shape(field) == <<Len(field), Len(field[1])>>

\* the check with the rank alone: len(inputs.shape) != 2
invalid_rank(field, factor) == Len(Shape(field)) # 2

\* the check both resample functions start with:
\* len(inputs.shape) != 2 or inputs.shape[1].value % factor
invalid_input_shape(field, factor) ==
  Len(Shape(field)) # 2 \/ Shape(field)[2] % factor # 0

\* the mean over the `factor` points a stride of width / factor apart
resample_mean_strided(field, factor) ==
  [b \in 1 .. Len(field) |-> [j \in 1 .. Len(field[b]) \div factor |->
    RMean([k \in 1 .. factor |-> field[b][(k - 1) * (Len(field[b]) \div factor) + j]])]]

\* resample_mean: tf.reduce_mean over blocks of `factor` points
resample_mean(field, factor) ==
  [b \in 1 .. Len(field) |-> [j \in 1 .. Len(field[b]) \div factor |->
    RMean([k \in 1 .. factor |-> field[b][(j - 1) * factor + k]])]]

\* subsample: inputs[:, ::factor]
subsample(field, factor) ==
  [b \in 1 .. Len(field) |-> [j \in 1 .. Len(field[b]) \div factor |->
    field[b][(j - 1) * factor + 1]]]

\* _RESAMPLE_FUNCS[hparams.resample_method] with factor=hparams.resample_factor,
\* on a tensor of rationals
resample(field, hp) ==
  IF hp.resample_method = "mean"
  THEN resample_mean(field, hp.resample_factor)
  ELSE subsample(field, hp.resample_factor)

InputWidths == {2, 3, 4}

InputHParams ==
  [equation : {"burgers"},
   conservative : BOOLEAN,
   resample_method : {"mean", "subsample"},
   resample_factor : 1 .. MaxFactor]

\* model_inputs(fine_inputs, hparams), statement by statement; `inputs` holds
\* fine_inputs and `result` the values bound so far
InitInputs ==
  /\ pc = "model_inputs_start"
  /\ hparams \in InputHParams
  /\ \E w \in InputWidths : inputs \in Fields(1, w, Values)
  /\ net = NoValue
  /\ result = NoValue
  /\ error = "none"
  /\ log = <<>>

\* fine_derivatives = calculate_baseline_derivatives(fine_inputs, fine_equation)
FineDerivatives ==
  /\ pc = "model_inputs_start"
  /\ pc' = "fine_derivatives"
  /\ result' = [fine_derivatives |->
                  calculate_baseline_derivatives(RatField(inputs),
                                                 from_hparams(hparams))]
  /\ log' = Append(log, "calculate_baseline_derivatives")
  /\ UNCHANGED <<hparams, inputs, net, error>>

\* labels = tf.stack([resample(d) for d in fine_derivatives], axis=-1)
Labels ==
  /\ pc = "fine_derivatives"
  /\ log' = Append(log, "resample")
  /\ IF invalid_input_shape(inputs, hparams.resample_factor)
     THEN /\ pc' = "raised"
          /\ error' = "ValueError"
          /\ result' = NoValue
     ELSE /\ pc' = "labels"
          /\ result' =
               [labels |-> stack_last([i \in 1 .. Len(result.fine_derivatives) |->
                             resample(result.fine_derivatives[i], hparams)])]
          /\ UNCHANGED error
  /\ UNCHANGED <<hparams, inputs, net>>

\* coarse_inputs = resample(fine_inputs)
CoarseInputs ==
  /\ pc = "labels"
  /\ log' = Append(log, "resample")
  /\ IF invalid_input_shape(inputs, hparams.resample_factor)
     THEN /\ pc' = "raised"
          /\ error' = "ValueError"
          /\ result' = NoValue
     ELSE /\ pc' = "coarse_inputs"
          /\ result' = [labels |-> result.labels,
                        inputs |-> resample(RatField(inputs), hparams)]
          /\ UNCHANGED error
  /\ UNCHANGED <<hparams, inputs, net>>

\* baseline = tf.stack(calculate_baseline_derivatives(coarse_inputs,
\* coarse_equation), axis=-1), and the dict returned
Baseline ==
  /\ pc = "coarse_inputs"
  /\ pc' = "model_inputs_done"
  /\ log' = Append(log, "calculate_baseline_derivatives")
  /\ result' = [labels |-> result.labels,
                baseline |-> stack_last(
                  calculate_baseline_derivatives(result.inputs, from_hparams(hparams))),
                inputs |-> result.inputs]
  /\ UNCHANGED <<hparams, inputs, net, error>>

NextInputs == FineDerivatives \/ Labels \/ CoarseInputs \/ Baseline

SpecInputs == InitInputs /\ [][NextInputs]_vars

NotDivisible == Len(inputs[1]) % hparams.resample_factor # 0

C15_BlockMean ==
  (pc \in {"coarse_inputs", "model_inputs_done"} /\ hparams.resample_method = "mean")
  => LET f == hparams.resample_factor
     IN  /\ Len(inputs[1]) % f = 0
         /\ Len(result.inputs) = Len(inputs)
         /\ \A b \in 1 .. Len(inputs) :
              /\ Len(result.inputs[b]) * f = Len(inputs[b])
              /\ \A j \in 0 .. Len(result.inputs[b]) - 1 :
                   RMul(result.inputs[b][j + 1], RInt(f))
                     = RInt(SumSeq([k \in 1 .. f |-> inputs[b][j * f + k]]))

C15_Witness ==
  /\ pc = "coarse_inputs"
  /\ hparams.resample_method = "mean"
  /\ hparams.resample_factor = 2
  /\ inputs = <<<<0, 1, 1, 1>>>>
  /\ result.inputs = <<<<Rat(1, 2), ROne>>>>

\* -------------------------------------------------------- loss and its calibration

\* Squared errors are counted in units of 1e-12 (labels and baseline in units
\* of 1e-6), so that the constant 1e-12 of determine_loss_scales is 1.
ErrorFloorMin == 1

\* the values over batch and x of channel c, in row-major order
FlattenChannel(t, c) ==
  LET X == Len(t[1])
  IN  [k \in 1 .. Len(t) * X |-> t[((k - 1) \div X) + 1][((k - 1) % X) + 1][c]]

RECURSIVE Insert(_, _)
Insert(v, sorted) ==
  IF sorted = <<>> THEN <<v>>
  ELSE IF RLess(Head(sorted), v) THEN <<Head(sorted)>> \o Insert(v, Tail(sorted))
  ELSE <<v>> \o sorted

RECURSIVE Sort(_)
Sort(s) == IF s = <<>> THEN <<>> ELSE Insert(Head(s), Sort(Tail(s)))

\* the larger of two rationals replaced by the first
RFirst(p, q) == p

\* np.maximum of two values
RMax(p, q) == IF RLess(p, q) THEN q ELSE p

\* np.percentile(values, 100 * q) with linear interpolation: the value at
\* rank q * (n - 1) of the sorted values
percentile(values, q) ==
  LET sorted == Sort(values)
      rank == RMul(q, RInt(Len(values) - 1))
      lo == rank[1] \div rank[2]
      frac == RSub(rank, RInt(lo))
  IN  IF lo + 1 >= Len(values)
      THEN sorted[Len(values)]
      ELSE RAdd(sorted[lo + 1], RMul(frac, RSub(sorted[lo + 2], sorted[lo + 1])))

\* (a - b) ** 2, elementwise on tensors [batch, x, derivative] of integers
SquaredDifference(a, b) ==
  [i \in 1 .. Len(a) |-> [x \in 1 .. Len(a[i]) |-> [c \in 1 .. Len(a[i][x]) |->
    RInt((a[i][x][c] - b[i][x][c]) * (a[i][x][c] - b[i][x][c]))]]]

\* loss_components(predictions, labels, baseline, error_floor), error_floor
\* with one entry per channel: (model_error, relative_error)
loss_components(predictions, labels, baseline, error_floor) ==
  LET model_error == SquaredDifference(labels, predictions)
      baseline_error == SquaredDifference(labels, baseline)
      relative_error ==
        [b \in 1 .. Len(labels) |-> [x \in 1 .. Len(labels[b]) |->
          [c \in 1 .. Len(labels[b][x]) |->
            RDiv(model_error[b][x][c],
                 RAdd(baseline_error[b][x][c], error_floor[c]))]]]
  IN  <<model_error, relative_error>>

\* np.zeros_like / an all-zero prediction
ZerosLike(t) ==
  [b \in 1 .. Len(t) |-> [x \in 1 .. Len(t[b]) |-> [c \in 1 .. Len(t[b][x]) |-> 0]]]

\* the mean over batch and x, per head and channel, of the two components
MeanPerHead(components) ==
  [h \in 1 .. 2 |-> [c \in 1 .. Len(components[h][1][1]) |->
    RMean(FlattenChannel(components[h], c))]]

\* the reciprocal of the mean error wherever it is not negative
determine_loss_scales_unguarded(data, hp) ==
  LET baseline_error == SquaredDifference(data.labels, data.baseline)
      error_floor ==
        [c \in 1 .. Len(data.labels[1][1]) |->
          RMax(percentile(FlattenChannel(baseline_error, c), hp.error_floor_quantile),
               RInt(ErrorFloorMin))]
      mean_error == MeanPerHead(loss_components(ZerosLike(data.labels), data.labels,
                                                data.baseline, error_floor))
  IN  [error_floor |-> error_floor,
       error_scale |-> [h \in 1 .. 2 |-> [c \in 1 .. Len(mean_error[h]) |->
                          RDiv(ROne, mean_error[h][c])]]]

\* determine_loss_scales on the loaded training data: (error_floor,
\* error_scale), the scale with dimensions [2, derivative]
determine_loss_scales(data, hp) ==
  LET baseline_error == SquaredDifference(data.labels, data.baseline)
      error_floor ==
        [c \in 1 .. Len(data.labels[1][1]) |->
          RMax(percentile(FlattenChannel(baseline_error, c), hp.error_floor_quantile),
               RInt(ErrorFloorMin))]
      components == loss_components(ZerosLike(data.labels), data.labels,
                                    data.baseline, error_floor)
      mean_error == MeanPerHead(components)
      error_scale ==
        [h \in 1 .. 2 |-> [c \in 1 .. Len(mean_error[h]) |->
          IF RLess(RZero, mean_error[h][c])
          THEN RDiv(ROne, mean_error[h][c])
          ELSE RZero]]
  IN  [error_floor |-> error_floor, error_scale |-> error_scale]

\* error_scale.ravel().tolist()
ravel(a) ==
  [k \in 1 .. Len(a) * Len(a[1]) |->
    a[((k - 1) \div Len(a[1])) + 1][((k - 1) % Len(a[1])) + 1]]

\* np.asarray(flat).reshape(-1, 2) read as [head, derivative]
reshape_pairs(flat) ==
  [h \in 1 .. 2 |-> [c \in 1 .. Len(flat) \div 2 |-> flat[(c - 1) * 2 + h]]]

\* np.asarray(hparams.error_scale).reshape(2, -1)
reshape_heads(flat) ==
  [h \in 1 .. 2 |-> [c \in 1 .. Len(flat) \div 2 |->
    flat[(h - 1) * (Len(flat) \div 2) + c]]]

\* calculate_loss up to normalized_loss_per_head: the means over batch and x
\* of the two components times the calibrated scale, [abs_rel, derivative]
normalized_loss_per_head(predictions, labels, baseline, hp) ==
  LET error_scale == reshape_heads(hp.error_scale)
      loss_per_head ==
        MeanPerHead(loss_components(predictions, labels, baseline, hp.error_floor))
  IN  [h \in 1 .. 2 |-> [c \in 1 .. Len(loss_per_head[h]) |->
        RMul(loss_per_head[h][c], error_scale[h][c])]]

\* the loaded dataset: labels and baseline [batch, x, derivative]
LossTensors ==
  [1 .. 1 -> [1 .. 2 -> [1 .. 2 -> Values]]]

LossHParams ==
  [error_floor_quantile : {Rat(0, 1), Rat(1, 10), Rat(1, 2)}]

InitLoss ==
  /\ pc = "loss_start"
  /\ hparams \in LossHParams
  /\ inputs \in [labels : LossTensors, baseline : LossTensors]
  /\ net = NoValue
  /\ result = NoValue
  /\ error = "none"
  /\ log = <<>>

\* add_data_dependent_hparams(hparams, snapshots)
AddDataDependentHParams ==
  /\ pc = "loss_start"
  /\ pc' = "calibrated"
  /\ LET scales == determine_loss_scales(inputs, hparams)
     IN  hparams' = [error_floor_quantile |-> hparams.error_floor_quantile,
                     error_scale |-> ravel(scales.error_scale),
                     error_floor |-> scales.error_floor]
  /\ log' = Append(log, "determine_loss_scales")
  /\ UNCHANGED <<inputs, net, result, error>>

\* the all-zero prediction scored on the calibration dataset
ScoreZeroPrediction ==
  /\ pc = "calibrated"
  /\ pc' = "scored_zero"
  /\ result' = normalized_loss_per_head(ZerosLike(inputs.labels), inputs.labels,
                                        inputs.baseline, hparams)
  /\ log' = Append(log, "calculate_loss")
  /\ UNCHANGED <<hparams, inputs, net, error>>

NextLoss == AddDataDependentHParams \/ ScoreZeroPrediction

SpecLoss == InitLoss /\ [][NextLoss]_vars

\* some label of channel c is not 0
SomeLabel(c) ==
  \E b \in 1 .. Len(inputs.labels) : \E x \in 1 .. Len(inputs.labels[b]) :
    inputs.labels[b][x][c] # 0

RelativeDenominator(c, b, x) ==
  RAdd(RInt((inputs.labels[b][x][c] - inputs.baseline[b][x][c])
            * (inputs.labels[b][x][c] - inputs.baseline[b][x][c])),
       hparams.error_floor[c])

\* the mean over batch and x of the error of an all-zero prediction, for
\* head h (1 absolute: labels squared, 2 relative: labels squared over
\* baseline squared error plus error floor) and channel c
MeanZeroPredictionError(h, c) ==
  RMean([k \in 1 .. Len(inputs.labels) * Len(inputs.labels[1]) |->
    LET b == ((k - 1) \div Len(inputs.labels[1])) + 1
        x == ((k - 1) % Len(inputs.labels[1])) + 1
        squared == RInt(inputs.labels[b][x][c] * inputs.labels[b][x][c])
    IN  IF h = 1 THEN squared ELSE RDiv(squared, RelativeDenominator(c, b, x))])

Calibrated == pc \in {"calibrated", "scored_zero"}

\* C13: after calibration, a head/channel whose mean zero-prediction error
\* is zero has error_scale exactly 0, every other head/channel has the
\* reciprocal of its mean error, and every scale is finite and non-negative.
C13_ScaleIsReciprocalOrZero ==
  Calibrated
  => \A h \in 1 .. 2 : \A c \in 1 .. Len(inputs.labels[1][1]) :
       LET scale == reshape_heads(hparams.error_scale)[h][c]
           mean_error == MeanZeroPredictionError(h, c)
       IN  /\ RFinite(scale)
           /\ ~ RLess(scale, RZero)
           /\ mean_error = RZero => scale = RZero
           /\ mean_error # RZero => RMul(scale, mean_error) = ROne

C13_Witness ==
  /\ pc = "calibrated"
  /\ inputs.labels = <<<<<<0, 1>>, <<0, 1>>>>>>
  /\ inputs.baseline = <<<<<<1, 1>>, <<0, 0>>>>>>
  /\ hparams.error_floor_quantile = Rat(1, 2)
  /\ hparams.error_scale = <<RZero, ROne, RZero, Rat(4, 3)>>

\* C14: every calibrated per-channel error floor is at least the small
\* positive constant, so baseline squared error plus error floor is strictly
\* positive at every batch element, position and channel, also where the
\* baseline squared error is zero.
C14_FloorKeepsDenominatorPositive ==
  Calibrated
  => \A c \in 1 .. Len(inputs.labels[1][1]) :
       /\ RFinite(hparams.error_floor[c])
       /\ ~ RLess(hparams.error_floor[c], RInt(ErrorFloorMin))
       /\ \A b \in 1 .. Len(inputs.labels) : \A x \in 1 .. Len(inputs.labels[b]) :
            /\ RFinite(RelativeDenominator(c, b, x))
            /\ RLess(RZero, RelativeDenominator(c, b, x))

C14_Witness ==
  /\ pc = "calibrated"
  /\ inputs.labels = inputs.baseline
  /\ inputs.labels = <<<<<<1, 0>>, <<0, 1>>>>>>
  /\ hparams.error_floor = <<RInt(ErrorFloorMin), RInt(ErrorFloorMin)>>


\* ------------------------------------------------------------- the training loss

\* the dimensions [abs_rel] weights: [1.0 - relative_error_weight,
\* relative_error_weight], in the other order
abs_rel_weights_reversed(hp) ==
  <<hp.relative_error_weight, RSub(ROne, hp.relative_error_weight)>>

\* [1.0 - hparams.relative_error_weight, hparams.relative_error_weight]
abs_rel_weights(hp) ==
  <<RSub(ROne, hp.relative_error_weight), hp.relative_error_weight>>

\* the dimensions [derivative] weights with the time weight first
time_space_weights(hp, num_space) ==
  <<hp.time_derivative_weight>>
    \o [c \in 1 .. num_space |->
          RDiv(RSub(ROne, hp.time_derivative_weight), RInt(num_space))]

\* [(1.0 - w_time) / num_space] * num_space + [w_time]
space_time_weights(hp, num_space) ==
  [c \in 1 .. num_space |->
      RDiv(RSub(ROne, hp.time_derivative_weight), RInt(num_space))]
    \o <<hp.time_derivative_weight>>

\* calculate_loss(predictions, labels, baseline, hparams): the sum of
\* weights * normalized_loss_per_head over heads and channels
calculate_loss(predictions, labels, baseline, hp) ==
  LET normalized == normalized_loss_per_head(predictions, labels, baseline, hp)
      num_space == Len(labels[1][1]) - 1
      heads == abs_rel_weights(hp)
      channels == space_time_weights(hp, num_space)
      weighted ==
        [k \in 1 .. 2 * (num_space + 1) |->
          LET h == ((k - 1) \div (num_space + 1)) + 1
              c == ((k - 1) % (num_space + 1)) + 1
          IN  RMul(RMul(heads[h], channels[c]), normalized[h][c])]
  IN  RSum(weighted)

LossPositions == 1 .. 2
LossChannels == {2, 3}

\* predictions, labels and baseline [batch, x, derivative] of one batch
LossBatches(channels) ==
  LET Tensor(v(_, _)) ==
        [b \in 1 .. 1 |-> [x \in LossPositions |-> [c \in 1 .. channels |-> v(x, c)]]]
      zero(x, c) == 0
      one(x, c) == 1
      ramp(x, c) == x + c
      alternating(x, c) == (x + c) % 2
  IN  [predictions : {Tensor(zero), Tensor(one), Tensor(ramp)},
       labels : [1 .. 1 -> [LossPositions -> [1 .. channels -> 0 .. 1]]],
       baseline : {Tensor(zero), Tensor(alternating)}]

\* hyper-parameters after add_data_dependent_hparams, for the given number
\* of channels
CalibratedHParams(channels) ==
  [error_scale : {[k \in 1 .. 2 * channels |-> ROne],
                  [k \in 1 .. 2 * channels |-> RInt(k)]},
   error_floor : {[c \in 1 .. channels |-> RInt(ErrorFloorMin)],
                  [c \in 1 .. channels |-> RInt(c)]},
   relative_error_weight : {RZero, Rat(1, 4), ROne},
   time_derivative_weight : {RZero, Rat(1, 3), ROne}]

InitCalculateLoss ==
  /\ pc = "calculate_loss_start"
  /\ \E channels \in LossChannels :
       /\ hparams \in CalibratedHParams(channels)
       /\ inputs \in LossBatches(channels)
  /\ net = NoValue
  /\ result = NoValue
  /\ error = "none"
  /\ log = <<>>

CalculateLoss ==
  /\ pc = "calculate_loss_start"
  /\ pc' = "loss"
  /\ result' = calculate_loss(inputs.predictions, inputs.labels, inputs.baseline,
                              hparams)
  /\ log' = Append(log, "calculate_loss")
  /\ UNCHANGED <<hparams, inputs, net, error>>

NextCalculateLoss == CalculateLoss

SpecCalculateLoss == InitCalculateLoss /\ [][NextCalculateLoss]_vars

\* the mean over batch and x of the error of the predictions, for head h
\* (1 absolute: squared difference to the labels, 2 relative: that over
\* baseline squared error plus error floor) and channel c
MeanPredictionError(h, c) ==
  RMean([k \in 1 .. Len(inputs.labels) * Len(inputs.labels[1]) |->
    LET b == ((k - 1) \div Len(inputs.labels[1])) + 1
        x == ((k - 1) % Len(inputs.labels[1])) + 1
        difference == inputs.labels[b][x][c] - inputs.predictions[b][x][c]
        squared == RInt(difference * difference)
    IN  IF h = 1 THEN squared ELSE RDiv(squared, RelativeDenominator(c, b, x))])

\* the share of channel c: the time (last) channel has
\* time_derivative_weight, each spatial channel an equal part of the rest
ChannelWeight(c) ==
  LET channels == Len(inputs.labels[1][1])
  IN  IF c = channels THEN hparams.time_derivative_weight
      ELSE RDiv(RSub(ROne, hparams.time_derivative_weight), RInt(channels - 1))

\* the weighted, scaled mean errors of head h summed over the channels
HeadLoss(h) ==
  LET channels == Len(inputs.labels[1][1])
  IN  RSum([c \in 1 .. channels |->
        RMul(RMul(ChannelWeight(c), hparams.error_scale[(h - 1) * channels + c]),
             MeanPredictionError(h, c))])

\* C12: calculate_loss returns the sum over heads and channels of
\* head_weight[h] * channel_weight[c] * error_scale[h, c] * mean error[h, c],
\* with head weights (1 - relative_error_weight, relative_error_weight),
\* equal weights (1 - time_derivative_weight) / num_space on the spatial
\* channels and time_derivative_weight on the last channel; a relative
\* weight of 0 gives the absolute head alone and 1 the relative head alone.
C12_WeightedSumOfHeads ==
  pc = "loss"
  => /\ result = RAdd(RMul(RSub(ROne, hparams.relative_error_weight), HeadLoss(1)),
                      RMul(hparams.relative_error_weight, HeadLoss(2)))
     /\ hparams.relative_error_weight = RZero => result = HeadLoss(1)
     /\ hparams.relative_error_weight = ROne => result = HeadLoss(2)

C12_Witness ==
  /\ pc = "loss"
  /\ Len(inputs.labels[1][1]) = 3
  /\ hparams.relative_error_weight = Rat(1, 4)
  /\ hparams.time_derivative_weight = Rat(1, 3)
  /\ hparams.error_scale[6] = RInt(6)
  /\ HeadLoss(1) # HeadLoss(2)
  /\ RLess(RZero, result)


\* ------------------------------------------------- training and validation data

MaxExamples == 4

\* python's round() of a non-negative rational: the nearest integer, a tie
\* going to the even one
round(p) ==
  LET lo == p[1] \div p[2]
      twice == RMul(RSub(p, RInt(lo)), RInt(2))
  IN  IF RLess(twice, ROne) THEN lo
      ELSE IF RLess(ROne, twice) THEN lo + 1
      ELSE IF lo % 2 = 0 THEN lo ELSE lo + 1

\* num_training = int(round(snapshots.shape[0] * hparams.frac_training))
num_training(snapshots, hp) ==
  round(RMul(RInt(Len(snapshots)), hp.frac_training))

\* s[start:stop] of a sequence, start and stop counted from 0 and clipped to
\* the length as python does; a stop of -1 stands for None
PySlice(s, start, stop) ==
  LET lo == IF start > Len(s) THEN Len(s) ELSE start
      hi == IF stop = -1 \/ stop > Len(s) THEN Len(s) ELSE stop
  IN  IF hi <= lo THEN <<>> ELSE [k \in 1 .. hi - lo |-> s[lo + k]]

\* the validation slice starting one example late
indexer_skipping_one(training, n) ==
  IF training THEN <<0, n>> ELSE <<n + 1, -1>>

\* slice(None, num_training) if training else slice(num_training, None)
indexer(training, n) ==
  IF training THEN <<0, n>> ELSE <<n, -1>>

\* make_dataset(snapshots, hparams, training, repeat): the examples of the
\* dataset, whether it is shuffled and repeated, and its batch size
make_dataset(snapshots, hp, training, repeat) ==
  LET slice == indexer(training, num_training(snapshots, hp))
  IN  [examples |-> PySlice(snapshots, slice[1], slice[2]),
       repeat |-> repeat,
       batch_size |-> hp.base_batch_size * hp.resample_factor]

DatasetHParams ==
  [frac_training : {RZero, Rat(1, 4), Rat(1, 2), Rat(3, 4), Rat(4, 5), ROne},
   base_batch_size : {1, 2},
   resample_factor : {1, 2}]

\* snapshots [examples, x]: example e is the row of value e
InitDataset ==
  /\ pc = "dataset_start"
  /\ hparams \in DatasetHParams
  /\ \E n \in 0 .. MaxExamples : inputs = [e \in 1 .. n |-> <<e, e>>]
  /\ net = NoValue
  /\ result = [training |-> NoValue, validation |-> NoValue]
  /\ error = "none"
  /\ log = <<>>

\* make_dataset(snapshots, hparams, training=True, repeat=...)
MakeTrainingDataset ==
  /\ "training" \notin Range(log)
  /\ \E repeat \in BOOLEAN :
       result' = [result EXCEPT !.training = make_dataset(inputs, hparams, TRUE, repeat)]
  /\ log' = Append(log, "training")
  /\ pc' = "dataset"
  /\ UNCHANGED <<hparams, inputs, net, error>>

\* make_dataset(snapshots, hparams, training=False, repeat=...)
MakeValidationDataset ==
  /\ "validation" \notin Range(log)
  /\ \E repeat \in BOOLEAN :
       result' = [result EXCEPT !.validation = make_dataset(inputs, hparams, FALSE, repeat)]
  /\ log' = Append(log, "validation")
  /\ pc' = "dataset"
  /\ UNCHANGED <<hparams, inputs, net, error>>

NextDataset == MakeTrainingDataset \/ MakeValidationDataset

SpecDataset == InitDataset /\ [][NextDataset]_vars

BothDatasetsMade == pc = "dataset" /\ Len(log) = 2

\* C19: for any N examples and any frac_training in [0, 1] the examples
\* selected with training=True and with training=False are disjoint and
\* together all N examples: training is the first n examples, n the integer
\* nearest to N * frac_training, and validation the remaining ones, in order.
C19_SplitIsPartition ==
  BothDatasetsMade
  => LET train == result.training.examples
         valid == result.validation.examples
         n == Len(train)
         twice == RMul(RSub(RInt(n), RMul(RInt(Len(inputs)), hparams.frac_training)),
                       RInt(2))
     IN  /\ Range(train) \cap Range(valid) = {}
         /\ Range(train) \cup Range(valid) = Range(inputs)
         /\ train \o valid = inputs
         /\ n = num_training(inputs, hparams)
         /\ ~ RLess(ROne, twice)
         /\ ~ RLess(twice, RInt(-1))

C19_Witness ==
  /\ BothDatasetsMade
  /\ Len(inputs) = 4
  /\ hparams.frac_training = Rat(3, 4)
  /\ Len(result.training.examples) = 3
  /\ result.validation.examples = <<<<4, 4>>>>


\* ------------------------------------------------ inference over a fixed dataset

MaxRuns == 2

\* dataset.batch(batch_size): consecutive batches, the last one possibly short
batch(examples, batch_size) ==
  [k \in 1 .. (Len(examples) + batch_size - 1) \div batch_size |->
    PySlice(examples, (k - 1) * batch_size, k * batch_size)]

\* tf.concat of a sequence of batches along the first axis
RECURSIVE concat(_)
concat(batches) ==
  IF batches = <<>> THEN <<>> ELSE Head(batches) \o concat(Tail(batches))

\* the iterator's initializer alone, the local variables left as they are
iterator_initializer(session) ==
  [session EXCEPT !.iterator = 0]

\* tf.group(iterator.initializer, tf.local_variables_initializer()): the
\* iterator back at the first batch, the metric accumulators emptied
initializer(session) ==
  [session EXCEPT !.iterator = 0, !.concat = <<>>, !.count = 0]

\* the update ops of the metrics on the iterator's next batch:
\* streaming_concat appends it, tf.metrics.mean counts it
updates(session) ==
  [session EXCEPT !.iterator = @ + 1,
                  !.concat = @ \o session.batches[session.iterator + 1],
                  !.count = @ + 1]

\* Inferer(snapshots, hparams, training): the batches of the non-repeating
\* dataset, an iterator not yet initialized and empty local variables
Inferer(snapshots, hp, training) ==
  LET dataset == make_dataset(snapshots, hp, training, FALSE)
  IN  [batches |-> batch(dataset.examples, dataset.batch_size),
       iterator |-> -1, concat |-> <<>>, count |-> 0, runs |-> 0]

InitInference ==
  /\ pc = "inferer"
  /\ hparams \in DatasetHParams
  /\ \E n \in 0 .. MaxExamples : inputs = [e \in 1 .. n |-> <<e, e>>]
  /\ \E training \in BOOLEAN : net = Inferer(inputs, hparams, training)
  /\ result = NoValue
  /\ error = "none"
  /\ log = <<>>

\* Inferer.run(sess): evaluate_metrics is entered
InfererRun ==
  /\ pc \in {"inferer", "returned"}
  /\ net.runs < MaxRuns
  /\ pc' = "evaluate_metrics"
  /\ log' = <<>>
  /\ UNCHANGED <<hparams, inputs, net, result, error>>

\* sess.run(initializer)
RunInitializer ==
  /\ pc = "evaluate_metrics"
  /\ pc' = "updating"
  /\ net' = initializer(net)
  /\ log' = Append(log, "initializer")
  /\ UNCHANGED <<hparams, inputs, result, error>>

\* sess.run(updates) with a batch left
RunUpdates ==
  /\ pc = "updating"
  /\ net.iterator < Len(net.batches)
  /\ net' = updates(net)
  /\ log' = Append(log, "updates")
  /\ UNCHANGED <<pc, hparams, inputs, result, error>>

\* sess.run(updates) on the exhausted iterator: tf.errors.OutOfRangeError,
\* caught, and the loop left
OutOfRange ==
  /\ pc = "updating"
  /\ net.iterator >= Len(net.batches)
  /\ pc' = "exhausted"
  /\ log' = Append(log, "OutOfRangeError")
  /\ UNCHANGED <<hparams, inputs, net, result, error>>

\* return sess.run(values)
RunValues ==
  /\ pc = "exhausted"
  /\ pc' = "returned"
  /\ result' = [concat |-> net.concat, count |-> net.count]
  /\ net' = [net EXCEPT !.runs = @ + 1]
  /\ log' = Append(log, "values")
  /\ UNCHANGED <<hparams, inputs, error>>

EvaluateMetrics == RunInitializer \/ RunUpdates \/ OutOfRange \/ RunValues

NextInference == InfererRun \/ EvaluateMetrics

\* once entered, evaluate_metrics runs statement after statement
SpecInference ==
  InitInference /\ [][NextInference]_vars /\ WF_vars(EvaluateMetrics)

\* what one complete run leaves in the log: the initializer, one update per
\* batch, the caught error, the values
CompleteRun ==
  <<"initializer">> \o [k \in 1 .. Len(net.batches) |-> "updates"]
    \o <<"OutOfRangeError", "values">>

\* each batch covered exactly once, in order, nothing else
CoversDatasetOnce ==
  /\ result.concat = concat(net.batches)
  /\ result.count = Len(net.batches)
  /\ log = CompleteRun

\* C18: evaluate_metrics on a finite dataset runs the initializer first,
\* then the update once per batch until the dataset is exhausted, reads the
\* values only after exhaustion, and terminates; every run of the Inferer,
\* the first and the repeated ones, covers each batch exactly once and
\* carries nothing over from the run before.
C18_EveryRunCoversDatasetOnce ==
  /\ [](pc = "returned" => CoversDatasetOnce)
  /\ [](pc = "updating" => (log # <<>> /\ Head(log) = "initializer"))
  /\ (pc = "evaluate_metrics" ~> pc = "returned")

C18_Witness ==
  /\ pc = "returned"
  /\ net.runs = 2
  /\ Len(net.batches) = 2
  /\ result.concat = <<<<1, 1>>, <<2, 2>>, <<3, 3>>>>
  /\ result.count = 2


\* --------------------------------------------------------------- the training loop

MaxStop == 4

\* setup that closes over unit scales instead of the calibrated ones
setup_training_unit_scales(hp) ==
  [error_scale |-> [k \in 1 .. Len(hp.error_scale) |-> ROne],
   error_floor |-> [c \in 1 .. Len(hp.error_floor) |-> ROne]]

\* setup_training / Inferer: calculate_loss is built once, from the values
\* hparams.error_scale and hparams.error_floor have at that moment, which
\* become constants of the graph
setup_training(hp) ==
  [error_scale |-> hp.error_scale, error_floor |-> hp.error_floor]

\* the evaluation test written with step in place of step + 1
should_evaluate_at_step(step, hp) == step % hp.eval_interval = 0

\* (step + 1) % hparams.eval_interval == 0
should_evaluate(step, hp) == (step + 1) % hp.eval_interval = 0

\* the reference data the scales are calibrated on
TrainingData ==
  [labels : {<<<<<<0, 0>>, <<0, 0>>>>>>, <<<<<<1, 0>>, <<0, 1>>>>>>,
             <<<<<<1, 1>>, <<0, 1>>>>>>},
   baseline : {<<<<<<0, 0>>, <<1, 1>>>>>>}]

TrainingHParams ==
  [learning_stops : {<<stop>> : stop \in 0 .. MaxStop}
                      \cup {<<1, stop>> : stop \in 1 .. MaxStop},
   eval_interval : {1, 2, 3},
   error_floor_quantile : {Rat(1, 10)}]

\* training_loop(snapshots, checkpoint_dir, hparams); `net` is the session:
\* the global step of the restored checkpoint, the loop's step and the
\* constants of the graph; `result` is logged_metrics
InitTraining ==
  /\ pc = "training_loop"
  /\ hparams \in TrainingHParams
  /\ inputs \in TrainingData
  /\ \E restored \in 0 .. MaxStop + 1 :
       net = [global_step |-> restored, step |-> -1, graph |-> NoValue]
  /\ result = <<>>
  /\ error = "none"
  /\ log = <<>>

\* hparams = copy.deepcopy(hparams); add_data_dependent_hparams(hparams, snapshots)
CalibrateLossScales ==
  /\ pc = "training_loop"
  /\ pc' = "hparams_complete"
  /\ LET scales == determine_loss_scales(inputs, hparams)
     IN  hparams' = [learning_stops |-> hparams.learning_stops,
                     eval_interval |-> hparams.eval_interval,
                     error_floor_quantile |-> hparams.error_floor_quantile,
                     error_scale |-> ravel(scales.error_scale),
                     error_floor |-> scales.error_floor]
  /\ log' = Append(log, [op |-> "add_data_dependent_hparams"])
  /\ UNCHANGED <<inputs, net, result, error>>

\* setup_training, the two Inferers, and the session opened on the restored
\* checkpoint: initial_step = sess.run(global_step)
SetupTraining ==
  /\ pc = "hparams_complete"
  /\ pc' = "loop"
  /\ net' = [net EXCEPT !.graph = setup_training(hparams),
                        !.step = net.global_step]
  /\ UNCHANGED <<hparams, inputs, result, error, log>>

\* sess.run(train_step) for the next step of the range
TrainStep ==
  /\ pc = "loop"
  /\ net.step < hparams.learning_stops[Len(hparams.learning_stops)]
  /\ pc' = "trained"
  /\ net' = [net EXCEPT !.global_step = @ + 1]
  /\ log' = Append(log, [op |-> "train_step", step |-> net.step,
                         scales |-> net.graph])
  /\ UNCHANGED <<hparams, inputs, result, error>>

\* the evaluation of a step: both inferers run, one entry is logged
Evaluate ==
  /\ pc = "trained"
  /\ should_evaluate(net.step, hparams)
  /\ pc' = "loop"
  /\ result' = Append(result, net.step)
  /\ net' = [net EXCEPT !.step = @ + 1]
  /\ log' = Append(log, [op |-> "evaluate", step |-> net.step,
                         scales |-> net.graph])
  /\ UNCHANGED <<hparams, inputs, error>>

\* a step without evaluation
SkipEvaluation ==
  /\ pc = "trained"
  /\ ~ should_evaluate(net.step, hparams)
  /\ pc' = "loop"
  /\ net' = [net EXCEPT !.step = @ + 1]
  /\ UNCHANGED <<hparams, inputs, result, error, log>>

\* the range is exhausted: return metrics_to_dataframe(logged_metrics)
FinishTraining ==
  /\ pc = "loop"
  /\ net.step >= hparams.learning_stops[Len(hparams.learning_stops)]
  /\ pc' = "training_done"
  /\ UNCHANGED <<hparams, inputs, net, result, error, log>>

\* what training_loop does once the hyper-parameters are complete
TrainingSession ==
  \/ SetupTraining
  \/ TrainStep
  \/ Evaluate
  \/ SkipEvaluation
  \/ FinishTraining

NextTraining == CalibrateLossScales \/ TrainingSession

\* from the setup on, training_loop runs statement after statement
SpecTraining == InitTraining /\ [][NextTraining]_vars /\ WF_vars(TrainingSession)

LastStop == hparams.learning_stops[Len(hparams.learning_stops)]

IsStepEntry(entry) == entry.op \in {"train_step", "evaluate"}

IsTrainEntry(entry) == entry.op = "train_step"

\* the training steps and evaluations done so far, as <<operation, step>>
StepEvents ==
  LET entries == SelectSeq(log, IsStepEntry)
  IN  [k \in 1 .. Len(entries) |-> <<entries[k].op, entries[k].step>>]

\* the global step the session was restored at
InitialStep == net.global_step - Len(SelectSeq(log, IsTrainEntry))

\* one training step for each step of from .. to - 1, followed by an
\* evaluation where (step + 1) % eval_interval = 0
RECURSIVE ExpectedEvents(_, _)
ExpectedEvents(from, to) ==
  IF from >= to THEN <<>>
  ELSE <<<<"train_step", from>>>>
         \o (IF (from + 1) % hparams.eval_interval = 0
             THEN <<<<"evaluate", from>>>> ELSE <<>>)
         \o ExpectedEvents(from + 1, to)

\* the steps of from .. to - 1 with (step + 1) % eval_interval = 0, ascending
RECURSIVE ExpectedLoggedSteps(_, _)
ExpectedLoggedSteps(from, to) ==
  IF from >= to THEN <<>>
  ELSE (IF (from + 1) % hparams.eval_interval = 0 THEN <<from>> ELSE <<>>)
         \o ExpectedLoggedSteps(from + 1, to)

IsPrefix(s, t) == Len(s) <= Len(t) /\ s = SubSeq(t, 1, Len(s))

TrainingLoopOrder ==
  /\ \A k \in 1 .. Len(result) - 1 : result[k] < result[k + 1]
  /\ pc \in {"loop", "trained", "training_done"}
       => IsPrefix(StepEvents, ExpectedEvents(InitialStep, LastStop))
  /\ pc = "training_done"
       => /\ StepEvents = ExpectedEvents(InitialStep, LastStop)
          /\ result = ExpectedLoggedSteps(InitialStep, LastStop)
          /\ InitialStep >= LastStop => (StepEvents = <<>> /\ result = <<>>)

\* C17: training_loop executes one training step for each step from the
\* restored global step up to learning_stops[-1] - 1 and then terminates; an
\* evaluation with one logged entry happens exactly after the steps with
\* (step + 1) % eval_interval = 0, after that step's training update, so
\* logged steps are strictly increasing; a run restored at or beyond the
\* last learning stop does no training step and logs nothing.
C17_StepsThenEvaluations ==
  /\ []TrainingLoopOrder
  /\ (pc = "hparams_complete" ~> pc = "training_done")

C17_Witness ==
  /\ pc = "training_done"
  /\ hparams.learning_stops = <<1, 4>>
  /\ hparams.eval_interval = 2
  /\ net.global_step = 4
  /\ result = <<1, 3>>
  /\ StepEvents = <<<<"train_step", 1>>, <<"evaluate", 1>>, <<"train_step", 2>>,
                    <<"train_step", 3>>, <<"evaluate", 3>>>>

\* the Loss Scale State the hyper-parameters hold
LossScaleState ==
  [error_scale |-> hparams.error_scale, error_floor |-> hparams.error_floor]

IsCalibration(entry) == entry.op = "add_data_dependent_hparams"

ScalesComputedOnceAndRead ==
  IF pc = "training_loop"
  THEN log = <<>> /\ "error_scale" \notin DOMAIN hparams
  ELSE /\ IsCalibration(log[1])
       /\ Len(SelectSeq(log, IsCalibration)) = 1
       /\ hparams.error_scale = ravel(determine_loss_scales(inputs, hparams).error_scale)
       /\ \A k \in 2 .. Len(log) : log[k].scales = LossScaleState

\* C11: in a training run the Loss Scale State (error_floor, error_scale)
\* is computed exactly once, before the first training step and before any
\* evaluation, and is never written again: every training step and every
\* evaluation reads the same values.
C11_ScalesComputedOnce ==
  /\ []ScalesComputedOnceAndRead
  /\ [][pc # "training_loop" => hparams' = hparams]_vars

C11_Witness ==
  /\ pc = "training_done"
  /\ inputs.labels = <<<<<<1, 0>>, <<0, 1>>>>>>
  /\ hparams.error_scale[1] = RInt(2)
  /\ Len(log) = 6
  /\ log[2].op = "train_step"
  /\ log[3].op = "evaluate"
  /\ log[6].scales = LossScaleState

====
